---- MODULE Spec2Model ----
(***************************************************************************)
(* The change-log watcher of state/watcher/watcher.go: one coordinator     *)
(* goroutine (Watcher.loop) owns the registry (watches), the cursor        *)
(* (lastId) and the two pending queues; callers reach it through the       *)
(* unbuffered request channel; subscribers receive on their own channels.  *)
(* An action is one step of a goroutine between two blocking points.       *)
(***************************************************************************)
EXTENDS Integers, Sequences, FiniteSets, TLC

\* Bounds of the model.
MaxLog == 3      \* log entries appended during a run
MaxLate == 2     \* selects in which the coordinator, with Dying ready, takes another case

Nil == "nil"
Colls == {"c1", "c2"}
Ids == {"a", "b"}
Chans == {"ch1", "ch2"}
Callers == {"p1"}

\* A revno read from the log: an int64, or a value of another type.
I64(n) == [ok |-> TRUE, v |-> n]
NotI64 == [ok |-> FALSE, v |-> 0]

\* One delta batch of a log entry: collection c, ids d, revnos r.
Batch(c, d, r) == [c |-> c, d |-> d, r |-> r]

\* The log entries a transaction may append (each a sequence of batches).
LogEntries ==
  { <<Batch("c1", <<"a">>, <<I64(3)>>)>>,
    <<Batch("c2", <<>>, <<>>), Batch("c1", <<"a">>, <<I64(-5)>>)>>,
    <<Batch("c1", <<"a", "b">>, <<I64(1), I64(2)>>)>>,
    <<Batch("c2", <<"a", "b">>, <<I64(1)>>),
      Batch("c1", <<"a", "a">>, <<I64(1), I64(2)>>)>>,
    <<Batch("c1", <<"a">>, <<NotI64>>)>> }

\* The well-formed entries among them.
PlainEntries ==
  { <<Batch("c1", <<"a">>, <<I64(3)>>)>>,
    <<Batch("c1", <<"a", "b">>, <<I64(1), I64(2)>>)>> }

\* The single entry of the runs in which the iterator may fail.
OneEntry == { <<Batch("c1", <<"a">>, <<I64(3)>>)>> }

\* The one filter callers pass to WatchCollectionWithFilter: accepts id "a".
FilterA == "onlyA"
ApplyFilter(f, id) == IF f = FilterA THEN id = "a" ELSE TRUE

watchKey(c, id) == <<c, id>>
WatchKeys == Colls \X (Ids \cup {Nil})

\* watchKey.match: does key k (document or whole collection) match document key k1
match(k, k1) ==
  IF k[1] # k1[1] THEN FALSE
  ELSE IF k[2] = Nil THEN TRUE
  ELSE k[2] = k1[2]

\* watchInfo; reg is history: the number of the registration that made it.
watchInfo(ch, revno, filter, reg) ==
  [ch |-> ch, revno |-> revno, filter |-> filter, reg |-> reg]

\* event; reg and sent are history: on whose behalf it was queued, and how
\* many times it has been put on its channel; och is the channel it had
\* when queued (ch becomes Nil when the event is purged); src is the row it
\* was made from (entry id e, batch b, index j) and pass the cursor the pass
\* that queued it left behind.
event(ch, key, revno, reg, src, pass) ==
  [ch |-> ch, key |-> key, revno |-> revno, reg |-> reg, sent |-> 0, och |-> ch,
   src |-> src, pass |-> pass]

VARIABLES
  tomb,           \* "alive" | "dying" | "dead"
  reason,         \* what Wait returns once dead
  cpc,            \* where the coordinator goroutine is: "init", "loop",
                  \*   "select", "flush", "signal", "panic", or returned from
                  \*   loop: "dead" (line 388), "restart" (379), "failed" (381)
  fl,             \* flush position: [q, i, ret]
  sig,            \* completion signal the coordinator is blocked sending
  watches,        \* registry: watchKey -> sequence of watchInfo
  needSync,
  syncEvents,
  requestEvents,
  lastId,         \* cursor: id of the newest entry observed, 0 = nil
  log,            \* the changelog collection, oldest entry first
  nlog,           \* history: entries appended so far (the next entry's id - 1)
  callers,        \* each caller's position, program, current request, last result
  nreg,           \* history: registrations made so far
  late,           \* history: selects of the coordinator that passed over Dying
  observed,       \* history: reg -> for a document-level registration, the
                  \*   revnos (as logged) the passes compared with its stored revno
  queued,         \* history: reg -> revnos queued for it by sync, in order
  delivered       \* history: reg -> revnos put on its channel, in order

vars == <<tomb, reason, cpc, fl, sig, watches, needSync, syncEvents,
          requestEvents, lastId, log, nlog, callers, nreg, late,
          observed, queued, delivered>>

(***************************************************************************)
(* Watcher.sync, as a function of the registry, the log and the cursor.    *)
(***************************************************************************)

\* variant of the pass that reports a negative revno as it was logged
normRevnoRaw(revno) == revno
\* revno < 0 is reported as -1 (watcher.go:593-595)
normRevno(revno) == IF revno < 0 THEN -1 ELSE revno

\* variants of the per-document test: >= in place of >, and a deletion
\* reported whatever the stored revno
docRuleAtLeast(revno, last) == revno >= last \/ (revno < 0 /\ last >= 0)
docRuleAnyDeletion(revno, last) == revno > last \/ revno < 0
\* variant of the per-document test without the deletion clause
docRuleNoDeletion(revno, last) == revno > last
\* variant of the per-document test that reports every revno other than last
docRuleDiffers(revno, last) == revno # last
\* the per-document test (watcher.go:611): last is the entry's stored revno
docRule(revno, last) == revno > last \/ (revno < 0 /\ last >= 0)

\* variant of the collection-wide test that does not consult the filter
collRuleNoFilter(info, id) == TRUE

\* a collection-wide entry takes the change unless its filter rejects the id
collRule(info, id) == ~(info.filter # Nil /\ ~ApplyFilter(info.filter, id))

\* a batch is skipped when len(d) == 0 || len(d) != len(r)
validBatch(b) == ~(Len(b.d) = 0 \/ Len(b.d) # Len(b.r))

\* variant of the row loop that stops before index 0 (i > 0 for i >= 0)
batchRowsSkipFirst(b, i) ==
  [k \in 1..(i - 1) |->
     [c |-> b.c, id |-> b.d[i + 1 - k], r |-> b.r[i + 1 - k], j |-> i + 1 - k]]
\* variant of the row loop that walks the batch from index 0 upwards
batchRowsAscending(b, i) ==
  [k \in 1..i |-> [c |-> b.c, id |-> b.d[k], r |-> b.r[k], j |-> k]]
\* rows of one batch in the order the pass walks them: last index first
RECURSIVE batchRows(_, _)
batchRows(b, i) ==
  IF i = 0 THEN <<>>
  ELSE <<[c |-> b.c, id |-> b.d[i], r |-> b.r[i], j |-> i]>> \o batchRows(b, i - 1)

\* variant of the batch loop that leaves the entry at an invalid batch
\* (break for continue)
RECURSIVE entryRowsStop(_, _)
entryRowsStop(entry, k) ==
  IF k > Len(entry) THEN <<>>
  ELSE IF validBatch(entry[k])
       THEN LET rows == batchRows(entry[k], Len(entry[k].d))
            IN [n \in 1..Len(rows) |-> rows[n] @@ [b |-> k]]
               \o entryRowsStop(entry, k + 1)
       ELSE <<>>

\* rows of one log entry: its batches in order, invalid batches skipped
RECURSIVE entryRows(_, _)
entryRows(entry, k) ==
  IF k > Len(entry) THEN <<>>
  ELSE (IF validBatch(entry[k])
        THEN LET rows == batchRows(entry[k], Len(entry[k].d))
             IN [n \in 1..Len(rows) |-> rows[n] @@ [b |-> k]]
        ELSE <<>>)
       \o entryRows(entry, k + 1)

\* variant of the pass that does not stop at the cursor (no break at
\* id.Value == lastId)
RECURSIVE passRowsAll(_, _, _)
passRowsAll(lg, i, last) ==
  IF i = 0 THEN <<>>
  ELSE LET rows == entryRows(lg[i].batches, 1)
       IN [n \in 1..Len(rows) |-> rows[n] @@ [e |-> lg[i].id]]
          \o passRowsAll(lg, i - 1, last)
\* rows of a pass: entries newest first, stopping at the entry whose id is last
RECURSIVE passRows(_, _, _)
passRows(lg, i, last) ==
  IF i = 0 THEN <<>>
  ELSE IF lg[i].id = last THEN <<>>
  ELSE LET rows == entryRows(lg[i].batches, 1)
       IN [n \in 1..Len(rows) |-> rows[n] @@ [e |-> lg[i].id]]
          \o passRows(lg, i - 1, last)

\* An empty changelog document: no field at all, so no _id (0 here) and no
\* batch.
EmptyDoc == [id |-> 0, batches |-> <<>>]

\* does the pass, reading lg from entry i down, come to an empty document
\* before it comes to the cursor
RECURSIVE readsEmpty(_, _, _)
readsEmpty(lg, i, last) ==
  IF i = 0 THEN FALSE
  ELSE IF lg[i] = EmptyDoc THEN TRUE
  ELSE IF lg[i].id = last THEN FALSE
  ELSE readsEmpty(lg, i - 1, last)

\* the position in lg of the first empty document the pass comes to
RECURSIVE firstEmpty(_, _)
firstEmpty(lg, i) ==
  IF i = 0 \/ lg[i] = EmptyDoc THEN i ELSE firstEmpty(lg, i - 1)

\* variant of the seen test that never skips a row
isSeenNever(seen, key) == FALSE
\* if seen[key] { continue }
isSeen(seen, key) == key \in seen

\* variant of the row body that applies the per-document test to the
\* collection-wide entries too
syncRowHighWater(st, row) ==
  LET key == watchKey(row.c, row.id) IN
  IF isSeen(st.seen, key) THEN st
  ELSE IF ~row.r.ok THEN [st EXCEPT !.seen = @ \cup {key}]
  ELSE
    LET revno == normRevno(row.r.v)
        ckey == watchKey(row.c, Nil)
        take(info) == collRule(info, row.id) /\ docRule(revno, info.revno)
        cinfos == SelectSeq(st.watches[ckey], take)
        src == [e |-> row.e, b |-> row.b, j |-> row.j]
        cevts == [k \in 1..Len(cinfos) |->
                    event(cinfos[k].ch, key, revno, cinfos[k].reg, src, st.pass)]
        cinfos2 == [k \in 1..Len(st.watches[ckey]) |->
                      IF take(st.watches[ckey][k])
                      THEN [st.watches[ckey][k] EXCEPT !.revno = revno]
                      ELSE st.watches[ckey][k]]
        infos == st.watches[key]
        hit(info) == docRule(revno, info.revno)
        dinfos == SelectSeq(infos, hit)
        devts == [k \in 1..Len(dinfos) |->
                    event(dinfos[k].ch, key, revno, dinfos[k].reg, src, st.pass)]
        infos2 == [k \in 1..Len(infos) |->
                    IF hit(infos[k]) THEN [infos[k] EXCEPT !.revno = revno]
                    ELSE infos[k]]
    IN [seen |-> st.seen \cup {key},
        pass |-> st.pass,
        watches |-> [st.watches EXCEPT ![key] = infos2, ![ckey] = cinfos2],
        events |-> st.events \o cevts \o devts,
        obs |-> st.obs \o [k \in 1..Len(infos) |->
                             [reg |-> infos[k].reg, revno |-> row.r.v]]]

\* the body of the innermost loop of sync for one row (watcher.go:583-620)
syncRow(st, row) ==
  LET key == watchKey(row.c, row.id) IN
  IF isSeen(st.seen, key) THEN st
  ELSE IF ~row.r.ok THEN [st EXCEPT !.seen = @ \cup {key}]
  ELSE
    LET revno == normRevno(row.r.v)
        take(info) == collRule(info, row.id)
        cinfos == SelectSeq(st.watches[watchKey(row.c, Nil)], take)
        src == [e |-> row.e, b |-> row.b, j |-> row.j]
        cevts == [k \in 1..Len(cinfos) |->
                    event(cinfos[k].ch, key, revno, cinfos[k].reg, src, st.pass)]
        infos == st.watches[key]
        hit(info) == docRule(revno, info.revno)
        dinfos == SelectSeq(infos, hit)
        devts == [k \in 1..Len(dinfos) |->
                    event(dinfos[k].ch, key, revno, dinfos[k].reg, src, st.pass)]
        infos2 == [k \in 1..Len(infos) |->
                    IF hit(infos[k]) THEN [infos[k] EXCEPT !.revno = revno]
                    ELSE infos[k]]
    IN [seen |-> st.seen \cup {key},
        pass |-> st.pass,
        watches |-> [st.watches EXCEPT ![key] = infos2],
        events |-> st.events \o cevts \o devts,
        obs |-> st.obs \o [k \in 1..Len(infos) |->
                             [reg |-> infos[k].reg, revno |-> row.r.v]]]

RECURSIVE syncRows(_, _, _)
syncRows(st, rows, i) ==
  IF i > Len(rows) THEN st ELSE syncRows(syncRow(st, rows[i]), rows, i + 1)

\* sync(): the registry after the pass, the events it appends, the new cursor
sync(ws, lg, last) ==
  LET st == syncRows([seen |-> {}, watches |-> ws, events |-> <<>>, obs |-> <<>>,
                      pass |-> IF Len(lg) = 0 THEN last ELSE lg[Len(lg)].id],
                     passRows(lg, Len(lg), last), 1)
  IN [watches |-> st.watches,
      events |-> st.events,
      obs |-> st.obs,
      lastId |-> IF Len(lg) = 0 THEN last ELSE lg[Len(lg)].id]

\* history: the revnos among evts queued for registration g, in order
RevnosFor(evts, g) ==
  LET mine(e) == e.reg = g
      es == SelectSeq(evts, mine)
  IN [k \in 1..Len(es) |-> es[k].revno]

(***************************************************************************)
(* Requests and Watcher.handle.                                            *)
(***************************************************************************)

\* The request values the public API builds. api names the public method.
Req(type, api, key, ids, ch, revno, filter) ==
  [type |-> type, api |-> api, key |-> key, ids |-> ids, ch |-> ch,
   revno |-> revno, filter |-> filter]
NoReq == Req("none", "none", watchKey(Nil, Nil), <<>>, Nil, 0, Nil)

\* variant of Watch that starts from revno -1 in place of -2
WatchFromDeleted(c, id, ch) ==
  Req("reqWatch", "Watch", watchKey(c, id), <<>>, ch, -1, Nil)
Watch(c, id, ch) == Req("reqWatch", "Watch", watchKey(c, id), <<>>, ch, -2, Nil)
WatchCollectionWithFilter(c, ch, f) ==
  Req("reqWatch", IF f = Nil THEN "WatchCollection" ELSE "WatchCollectionWithFilter",
      watchKey(c, Nil), <<>>, ch, 0, f)
WatchCollection(c, ch) == WatchCollectionWithFilter(c, ch, Nil)
WatchMulti(c, ids, ch) ==
  Req("reqWatchMulti", "WatchMulti", watchKey(c, Nil), ids, ch, -2, Nil)
Unwatch(c, id, ch) == Req("reqUnwatch", "Unwatch", watchKey(c, id), <<>>, ch, 0, Nil)
UnwatchCollection(c, ch) ==
  Req("reqUnwatch", "UnwatchCollection", watchKey(c, Nil), <<>>, ch, 0, Nil)
StartSync == Req("reqSync", "StartSync", watchKey(Nil, Nil), <<>>, Nil, 0, Nil)

\* variants of the search: one that finds nothing, one that looks at the
\* last entry only
hasChanNever(infos, ch) == FALSE
hasChanLast(infos, ch) == Len(infos) > 0 /\ infos[Len(infos)].ch = ch
\* is ch among the entries infos
hasChan(infos, ch) == \E i \in 1..Len(infos) : infos[i].ch = ch

\* reqUnwatch: the first entry with the channel is overwritten by the last
\* entry and the list is cut by one (watcher.go:469-476)
removeChan(infos, ch) ==
  LET i == CHOOSE j \in 1..Len(infos) :
             infos[j].ch = ch /\ \A k \in 1..(j - 1) : infos[k].ch # ch
      n == Len(infos)
  IN SubSeq([infos EXCEPT ![i] = infos[n]], 1, n - 1)

\* variant of the purge that compares keys with == in place of match
purgeSameKey(evts, key, ch) ==
  [i \in 1..Len(evts) |->
     IF key = evts[i].key /\ evts[i].ch = ch
     THEN [evts[i] EXCEPT !.ch = Nil] ELSE evts[i]]
\* reqUnwatch: pending events of the (key, channel) pair lose their channel
purge(evts, key, ch) ==
  [i \in 1..Len(evts) |->
     IF match(key, evts[i].key) /\ evts[i].ch = ch
     THEN [evts[i] EXCEPT !.ch = Nil] ELSE evts[i]]

\* variant of the second loop that stops after one id
addMultiFirst(ws, c, ids, ch, i, g) ==
  [ws EXCEPT ![watchKey(c, ids[i])] = Append(@, watchInfo(ch, -2, Nil, g + i))]
\* reqWatchMulti: the second loop, appending one entry per id of the list
RECURSIVE addMulti(_, _, _, _, _, _)
addMulti(ws, c, ids, ch, i, g) ==
  IF i > Len(ids) THEN ws
  ELSE addMulti([ws EXCEPT ![watchKey(c, ids[i])] =
                     Append(@, watchInfo(ch, -2, Nil, g + i))],
                c, ids, ch, i + 1, g)

\* variant of the first loop that looks at the first id only
multiDupFirst(ws, c, ids, ch) == hasChan(ws[watchKey(c, ids[1])], ch)
\* reqWatchMulti: the first loop finds ch already registered against an id
multiDup(ws, c, ids, ch) ==
  \E i \in 1..Len(ids) : hasChan(ws[watchKey(c, ids[i])], ch)

\* variant of the append whose result is not stored
addWatchLost(ws, r, g) == ws
\* reqWatch: w.watches[r.key] = append(w.watches[r.key], r.info)
addWatch(ws, r, g) ==
  [ws EXCEPT ![r.key] = Append(@, watchInfo(r.ch, r.revno, r.filter, g))]

\* variant of what handle leaves behind in which a registration also puts
\* an event for its channel in the request queue
HandledNotify(ws, ns, se, re, g, out) ==
  [watches |-> ws, needSync |-> ns, syncEvents |-> se,
   requestEvents |->
     IF g > nreg
     THEN LET k == CHOOSE k \in WatchKeys :
                     \E i \in 1..Len(ws[k]) : ws[k][i].reg = g
              i == CHOOSE i \in 1..Len(ws[k]) : ws[k][i].reg = g
          IN Append(re, event(ws[k][i].ch, k, ws[k][i].revno, g,
                              [e |-> 0, b |-> 0, j |-> 0], 0))
     ELSE re,
   nreg |-> g, out |-> out]

\* The state handle leaves behind, and how it ends: "none" (returns at once),
\* "nil" / "dup" (blocks sending that value on the request's completion
\* channel), or "panic".
Handled(ws, ns, se, re, g, out) ==
  [watches |-> ws, needSync |-> ns, syncEvents |-> se, requestEvents |-> re,
   nreg |-> g, out |-> out]

handle(r) ==
  CASE r.type = "reqSync" ->
         Handled(watches, TRUE, syncEvents, requestEvents, nreg, "none")
    [] r.type = "reqWatch" ->
         IF hasChan(watches[r.key], r.ch)
         THEN Handled(watches, needSync, syncEvents, requestEvents, nreg, "panic")
         ELSE Handled(addWatch(watches, r, nreg + 1),
                      needSync, syncEvents, requestEvents, nreg + 1, "nil")
    [] r.type = "reqUnwatch" ->
         IF ~hasChan(watches[r.key], r.ch)
         THEN Handled(watches, needSync, syncEvents, requestEvents, nreg, "panic")
         ELSE Handled([watches EXCEPT ![r.key] = removeChan(@, r.ch)],
                      needSync, purge(syncEvents, r.key, r.ch),
                      purge(requestEvents, r.key, r.ch), nreg, "none")
    [] r.type = "reqWatchMulti" ->
         IF multiDup(watches, r.key[1], r.ids, r.ch)
         THEN Handled(watches, needSync, syncEvents, requestEvents, nreg, "dup")
         ELSE Handled(addMulti(watches, r.key[1], r.ids, r.ch, 1, nreg),
                      needSync, syncEvents, requestEvents, nreg + Len(r.ids), "nil")

(***************************************************************************)
(* Watcher.flush: where the delivery loops stand.                          *)
(***************************************************************************)

\* variant of the first loop that walks syncEvents from index 0 upwards
syncIdxLowest(se, i) ==
  LET S == {j \in 1..i : se[j].ch # Nil /\ se[j].sent = 0}
  IN IF S = {} THEN 0 ELSE CHOOSE j \in S : \A k \in S : j <= k

\* first loop: the highest index <= i of syncEvents whose channel is set, or 0
syncIdx(se, i) ==
  LET S == {j \in 1..i : se[j].ch # Nil}
  IN IF S = {} THEN 0 ELSE CHOOSE j \in S : \A k \in S : k <= j

\* second loop: the lowest index >= i of requestEvents whose channel is set
requestIdx(re, i) ==
  LET S == {j \in i..Len(re) : re[j].ch # Nil}
  IN IF S = {} THEN Len(re) + 1 ELSE CHOOSE j \in S : \A k \in S : j <= k

\* flush from position (q, i): either it blocks in the select of an event
\* that still has a channel, or it runs to the end, empties both queues and
\* returns to ret ("select": line 384-386, "loop": the top of the for loop).
flush(se, re, q, i, ret) ==
  LET j == IF q = "sync" THEN syncIdx(se, i) ELSE 0
      k == requestIdx(re, IF q = "sync" THEN 1 ELSE i)
  IN IF j > 0
     THEN [cpc |-> "flush", fl |-> [q |-> "sync", i |-> j, ret |-> ret],
           syncEvents |-> se, requestEvents |-> re]
     ELSE IF k <= Len(re)
     THEN [cpc |-> "flush", fl |-> [q |-> "request", i |-> k, ret |-> ret],
           syncEvents |-> se, requestEvents |-> re]
     ELSE [cpc |-> ret, fl |-> [q |-> Nil, i |-> 0, ret |-> Nil],
           syncEvents |-> <<>>, requestEvents |-> <<>>]

NoFlush == [q |-> Nil, i |-> 0, ret |-> Nil]
NoSig == [to |-> Nil, call |-> 0, val |-> Nil, from |-> Nil]

Dying == tomb # "alive"

\* A select of the coordinator with several ready cases takes any of them:
\* with Dying ready it may take another case, which late counts.
PassOver ==
  /\ Dying => late < MaxLate
  /\ late' = IF Dying THEN late + 1 ELSE late
Crashed == cpc = "panic"

(***************************************************************************)
(* Initial state: newWatcher has returned, the loop goroutine has started. *)
(***************************************************************************)

\* The sequences of API calls a caller may make, one after the other.
Programs ==
  { <<Watch("c1", "a", "ch1"), Unwatch("c1", "a", "ch1"), Watch("c1", "a", "ch1")>>,
    <<Watch("c1", "a", "ch1"), WatchMulti("c1", <<"a", "b">>, "ch1"), StartSync>>,
    <<WatchMulti("c1", <<"a", "b">>, "ch1"), Unwatch("c1", "b", "ch1"),
      WatchMulti("c1", <<"b", "a">>, "ch1")>>,
    <<WatchCollection("c1", "ch1"), Watch("c1", "a", "ch1"),
      UnwatchCollection("c1", "ch1")>>,
    <<Watch("c1", "a", "ch1"), Watch("c1", "a", "ch2"), Unwatch("c1", "a", "ch1")>>,
    <<WatchCollectionWithFilter("c1", "ch2", FilterA), WatchCollection("c1", "ch1"),
      UnwatchCollection("c1", "ch2")>>,
    <<WatchMulti("c1", <<"a", "a">>, "ch1"), Unwatch("c1", "a", "ch1"),
      Unwatch("c1", "a", "ch1")>> }

\* a caller between two calls: the last call, its request and its result
Returned(c, res) == [c EXCEPT !.pc = "idle", !.res = res]

Init ==
  /\ tomb = "alive"
  /\ reason = "ErrStillAlive"
  /\ cpc = "init"
  /\ fl = NoFlush
  /\ sig = NoSig
  /\ watches = [k \in WatchKeys |-> <<>>]
  /\ needSync = FALSE
  /\ syncEvents = <<>>
  /\ requestEvents = <<>>
  /\ lastId = 0
  /\ log = <<>>
  /\ nlog = 0
  /\ callers \in [Callers -> {[pc |-> "idle", call |-> 0, req |-> NoReq, res |-> Nil,
                                  made |-> {}, todo |-> pr] : pr \in Programs}]
  /\ nreg = 0
  /\ late = 0
  /\ observed = <<>>
  /\ queued = <<>>
  /\ delivered = <<>>

\* The programs of a caller that passes a nil id to WatchMulti.
NilPrograms ==
  { <<Watch("c1", "a", "ch1"), WatchMulti("c1", <<"b", Nil>>, "ch1"),
      Watch("c1", "b", "ch1")>>,
    <<WatchMulti("c1", <<Nil, "a">>, "ch1"), WatchMulti("c1", <<"a", "b">>, "ch1"),
      Unwatch("c1", "a", "ch1")>>,
    <<WatchCollection("c1", "ch1"), WatchMulti("c1", <<Nil>>, "ch2"),
      UnwatchCollection("c1", "ch1")>> }

\* Init with those programs
InitNil ==
  /\ tomb = "alive"
  /\ reason = "ErrStillAlive"
  /\ cpc = "init"
  /\ fl = NoFlush
  /\ sig = NoSig
  /\ watches = [k \in WatchKeys |-> <<>>]
  /\ needSync = FALSE
  /\ syncEvents = <<>>
  /\ requestEvents = <<>>
  /\ lastId = 0
  /\ log = <<>>
  /\ nlog = 0
  /\ callers \in [Callers -> {[pc |-> "idle", call |-> 0, req |-> NoReq, res |-> Nil,
                                  made |-> {}, todo |-> pr] : pr \in NilPrograms}]
  /\ nreg = 0
  /\ late = 0
  /\ observed = <<>>
  /\ queued = <<>>
  /\ delivered = <<>>

(***************************************************************************)
(* The environment: transactions appending to the log, and Kill.           *)
(***************************************************************************)

\* The log is read only by initLastId and by sync, so an append is taken
\* when the coordinator is about to read it. The collection is capped: the
\* entries older than the cursor, which no pass reaches again, are forgotten
\* when the cursor moves (reachable).
reachable(lg) == IF Len(lg) = 0 THEN lg ELSE <<lg[Len(lg)]>>

AboutToRead == cpc = "init" \/ (cpc = "loop" /\ needSync)

LogAppend(entries) ==
  /\ ~Crashed
  /\ AboutToRead
  /\ nlog < MaxLog
  /\ nlog' = nlog + 1
  /\ \E e \in entries : log' = Append(log, [id |-> nlog + 1, batches |-> e])
  /\ UNCHANGED <<tomb, reason, cpc, fl, sig, watches, needSync, syncEvents,
                 requestEvents, lastId, callers, nreg, late, observed, queued, delivered>>

\* a transaction log that hands the iterator a document without fields
LogAppendEmpty ==
  /\ ~Crashed
  /\ AboutToRead
  /\ nlog < MaxLog
  /\ nlog' = nlog + 1
  /\ log' = Append(log, EmptyDoc)
  /\ UNCHANGED <<tomb, reason, cpc, fl, sig, watches, needSync, syncEvents,
                 requestEvents, lastId, callers, nreg, late, observed, queued, delivered>>

\* Watcher.Kill: tomb.Kill(nil)
Kill ==
  /\ ~Crashed
  /\ tomb = "alive"
  /\ tomb' = "dying"
  /\ reason' = Nil
  /\ UNCHANGED <<cpc, fl, sig, watches, needSync, syncEvents, requestEvents,
                 lastId, log, nlog, callers, nreg, late, observed, queued, delivered>>

(***************************************************************************)
(* Callers: the public API up to the first select.                         *)
(***************************************************************************)

\* variant of the entry of a call without the test for a nil id in the list
\* of WatchMulti
CallUnchecked(p) ==
  /\ ~Crashed
  /\ callers[p].pc = "idle"
  /\ callers[p].todo # <<>>
  /\ callers' = [callers EXCEPT ![p] =
       [pc |-> "send", call |-> @.call + 1, req |-> Head(@.todo),
        res |-> Nil, made |-> {}, todo |-> Tail(@.todo)]]
  /\ UNCHANGED <<tomb, reason, cpc, fl, sig, watches, needSync, syncEvents,
                 requestEvents, lastId, log, nlog, nreg, late, observed, queued, delivered>>

\* The caller issues the next call of its program. WatchMulti returns an
\* error at once when an id of the list is nil; every other call goes on to
\* the select that sends its request.
Call(p) ==
  /\ ~Crashed
  /\ callers[p].pc = "idle"
  /\ callers[p].todo # <<>>
  /\ LET r == Head(callers[p].todo)
         nilId == r.type = "reqWatchMulti" /\ \E i \in 1..Len(r.ids) : r.ids[i] = Nil
     IN callers' = [callers EXCEPT ![p] =
          [pc |-> IF nilId THEN "idle" ELSE "send",
           call |-> @.call + 1, req |-> r,
           res |-> IF nilId THEN "errNilId" ELSE Nil,
           made |-> {}, todo |-> Tail(@.todo)]]
  /\ UNCHANGED <<tomb, reason, cpc, fl, sig, watches, needSync, syncEvents,
                 requestEvents, lastId, log, nlog, nreg, late, observed, queued, delivered>>

\* the Dying case of the select that sends the request (sendReq, sendAndWaitReq)
SendDying(p) ==
  /\ ~Crashed
  /\ callers[p].pc = "send"
  /\ Dying
  /\ callers' = [callers EXCEPT ![p] =
       IF @.req.type = "reqWatchMulti" THEN [@ EXCEPT !.pc = "wait"]
       ELSE Returned(@, IF @.req.type = "reqWatch" THEN "ErrDying" ELSE Nil)]
  /\ UNCHANGED <<tomb, reason, cpc, fl, sig, watches, needSync, syncEvents,
                 requestEvents, lastId, log, nlog, nreg, late, observed, queued, delivered>>

\* the Dying case of the select that waits for the completion signal
WaitDying(p) ==
  /\ ~Crashed
  /\ callers[p].pc = "wait"
  /\ Dying
  /\ callers' = [callers EXCEPT ![p] = Returned(@, "ErrDying")]
  /\ UNCHANGED <<tomb, reason, cpc, fl, sig, watches, needSync, syncEvents,
                 requestEvents, lastId, log, nlog, nreg, late, observed, queued, delivered>>

\* what the caller does once the coordinator has taken its request; made is
\* history: the registrations handle made for this call
Sent(c, made) ==
  IF c.req.type \in {"reqWatch", "reqWatchMulti"}
  THEN [c EXCEPT !.pc = "wait", !.made = made]
  ELSE Returned(c, Nil)

(***************************************************************************)
(* The coordinator: Watcher.loop, with sync, handle and flush.             *)
(***************************************************************************)

\* variant of initLastId that does not read the log and leaves the cursor nil
InitLastIdNil ==
  /\ cpc = "init"
  /\ needSync' = TRUE
  /\ lastId' = 0
  /\ cpc' = "loop"
  /\ UNCHANGED <<tomb, reason, fl, sig, watches, syncEvents, requestEvents,
                 log, nlog, callers, nreg, late, observed, queued, delivered>>

\* loop, up to the for loop (the timer is armed, needSync set, cursor read)
InitLastId ==
  /\ cpc = "init"
  /\ needSync' = TRUE
  /\ lastId' = (IF Len(log) = 0 THEN 0 ELSE log[Len(log)].id)
  /\ log' = reachable(log)
  /\ cpc' = "loop"
  /\ UNCHANGED <<tomb, reason, fl, sig, watches, syncEvents, requestEvents,
                 nlog, callers, nreg, late, observed, queued, delivered>>

\* what the query of initLastId may return besides nil and ErrNotFound
FindErrs == {"io"}

\* loop, initLastId returning an error: loop returns it, the tomb dies with
\* it as cause (a nil cause left by Kill is replaced)
InitLastIdFails ==
  /\ cpc = "init"
  /\ \E err \in FindErrs : reason' = err
  /\ needSync' = TRUE
  /\ cpc' = "failed"
  /\ tomb' = "dead"
  /\ UNCHANGED <<fl, sig, watches, syncEvents, requestEvents, lastId, log,
                 nlog, callers, nreg, late, observed, queued, delivered>>

\* top of the for loop with needSync set: sync(), then flush() until it
\* blocks or completes
Sync ==
  /\ cpc = "loop"
  /\ needSync
  /\ ~readsEmpty(log, Len(log), lastId)
  /\ LET r == sync(watches, log, lastId)
         se == syncEvents \o r.events
         f == flush(se, requestEvents, "sync", Len(se), "select")
     IN /\ watches' = r.watches
        /\ lastId' = r.lastId
        /\ log' = reachable(log)
        /\ queued' = [g \in 1..Len(queued) |-> queued[g] \o RevnosFor(r.events, g)]
        /\ observed' = [g \in 1..Len(observed) |-> observed[g] \o RevnosFor(r.obs, g)]
        /\ cpc' = f.cpc
        /\ fl' = f.fl
        /\ syncEvents' = f.syncEvents
        /\ requestEvents' = f.requestEvents
  /\ needSync' = FALSE
  /\ UNCHANGED <<tomb, reason, sig, nlog, callers, nreg, late, delivered>>

\* variant of the pass that goes on to the next entry after an empty
\* document (continue after the trace message)
SyncSkipsEmpty ==
  /\ cpc = "loop"
  /\ needSync
  /\ readsEmpty(log, Len(log), lastId)
  /\ LET keep(x) == x # EmptyDoc
         lg == SelectSeq(log, keep)
         r == sync(watches, lg, lastId)
         se == syncEvents \o r.events
         f == flush(se, requestEvents, "sync", Len(se), "select")
     IN /\ watches' = r.watches
        /\ lastId' = r.lastId
        /\ log' = reachable(lg)
        /\ queued' = [g \in 1..Len(queued) |-> queued[g] \o RevnosFor(r.events, g)]
        /\ observed' = [g \in 1..Len(observed) |-> observed[g] \o RevnosFor(r.obs, g)]
        /\ cpc' = f.cpc
        /\ fl' = f.fl
        /\ syncEvents' = f.syncEvents
        /\ requestEvents' = f.requestEvents
  /\ needSync' = FALSE
  /\ UNCHANGED <<tomb, reason, sig, nlog, callers, nreg, late, delivered>>

\* top of the for loop with needSync set, the iterator returning an empty
\* document before the pass has come to the cursor: sync() has queued what
\* the newer entries gave, then id := entry[0] is out of range and the
\* coordinator goroutine panics
SyncPanics ==
  /\ cpc = "loop"
  /\ needSync
  /\ readsEmpty(log, Len(log), lastId)
  /\ LET n == firstEmpty(log, Len(log))
         r == sync(watches, SubSeq(log, n + 1, Len(log)), lastId)
     IN /\ watches' = r.watches
        /\ lastId' = r.lastId
        /\ syncEvents' = syncEvents \o r.events
        /\ queued' = [g \in 1..Len(queued) |-> queued[g] \o RevnosFor(r.events, g)]
        /\ observed' = [g \in 1..Len(observed) |-> observed[g] \o RevnosFor(r.obs, g)]
  /\ needSync' = FALSE
  /\ cpc' = "panic"
  /\ UNCHANGED <<tomb, reason, fl, sig, requestEvents, log, nlog, callers, nreg,
                 late, delivered>>

\* what iter.Close() may return at the end of a pass, besides nil
IterErrs == {"positionLost", "io"}

\* variant of loop that returns the sync error as it is
loopErrAsIs(err) == err
\* variant of loop that asks for a restart whatever the sync error
loopErrRestart(err) == "ErrRestartAgent"

\* loop: the cause of what it returns for a sync error
loopErr(err) == IF err = "positionLost" THEN "ErrRestartAgent" ELSE err

\* top of the for loop with needSync set, the iterator failing after it has
\* returned the n newest entries: sync() queues what it read and returns the
\* error, loop returns without flush, and the tomb dies with the cause
SyncFails ==
  /\ cpc = "loop"
  /\ needSync
  /\ \E err \in IterErrs, n \in 0..Len(log) :
       LET r == sync(watches, SubSeq(log, Len(log) - n + 1, Len(log)), lastId)
       IN /\ watches' = r.watches
          /\ lastId' = r.lastId
          /\ syncEvents' = syncEvents \o r.events
          /\ queued' = [g \in 1..Len(queued) |-> queued[g] \o RevnosFor(r.events, g)]
          /\ observed' = [g \in 1..Len(observed) |-> observed[g] \o RevnosFor(r.obs, g)]
          /\ cpc' = (IF err = "positionLost" THEN "restart" ELSE "failed")
          /\ reason' = loopErr(err)
  /\ needSync' = FALSE
  /\ tomb' = "dead"
  /\ UNCHANGED <<fl, sig, requestEvents, log, nlog, callers, nreg, late, delivered>>

\* the coordinator is in the select of the for loop
AtSelect == cpc = "select" \/ (cpc = "loop" /\ ~needSync)

\* variant of the Dying case after which the loop goes on
SelectDyingGoesOn ==
  /\ AtSelect
  /\ Dying
  /\ cpc' = "loop"
  /\ tomb' = "dead"
  /\ needSync' = TRUE
  /\ UNCHANGED <<reason, fl, sig, watches, syncEvents, requestEvents,
                 lastId, log, nlog, callers, nreg, late, observed, queued, delivered>>

\* case <-w.tomb.Dying(): the loop returns ErrDying and the tomb dies
SelectDying ==
  /\ AtSelect
  /\ Dying
  /\ cpc' = "dead"
  /\ tomb' = "dead"
  /\ UNCHANGED <<reason, fl, sig, watches, needSync, syncEvents, requestEvents,
                 lastId, log, nlog, callers, nreg, late, observed, queued, delivered>>

\* case <-next
Tick ==
  /\ AtSelect
  /\ PassOver
  /\ needSync' = TRUE
  /\ cpc' = "loop"
  /\ UNCHANGED <<tomb, reason, fl, sig, watches, syncEvents, requestEvents,
                 lastId, log, nlog, callers, nreg, observed, queued, delivered>>

\* The coordinator takes the request of caller p and runs handle on it, from
\* the select of the loop (from = "select") or of flush (from = "flush"),
\* up to the point where handle blocks, panics or returns into flush.
Receive(p, from) ==
  /\ callers[p].pc = "send"
  /\ PassOver
  /\ LET h == handle(callers[p].req)
         f == IF from = "select"
              THEN flush(h.syncEvents, h.requestEvents, "sync",
                         Len(h.syncEvents), "loop")
              ELSE flush(h.syncEvents, h.requestEvents, fl.q, fl.i, fl.ret)
     IN /\ watches' = h.watches
        /\ needSync' = h.needSync
        /\ nreg' = h.nreg
        /\ observed' = observed \o [g \in 1..(h.nreg - nreg) |-> <<>>]
        /\ queued' = queued \o [g \in 1..(h.nreg - nreg) |-> <<>>]
        /\ delivered' = delivered \o [g \in 1..(h.nreg - nreg) |-> <<>>]
        /\ IF h.out = "panic"
           THEN /\ cpc' = "panic"
                /\ UNCHANGED <<fl, sig, syncEvents, requestEvents>>
           ELSE IF h.out = "none"
           THEN /\ cpc' = f.cpc
                /\ fl' = f.fl
                /\ syncEvents' = f.syncEvents
                /\ requestEvents' = f.requestEvents
                /\ sig' = sig
           ELSE /\ cpc' = "signal"
                /\ sig' = [to |-> p, call |-> callers[p].call, val |-> h.out, from |-> from]
                /\ syncEvents' = h.syncEvents
                /\ requestEvents' = h.requestEvents
                /\ fl' = fl
  /\ callers' = [callers EXCEPT ![p] = Sent(@, (nreg + 1)..nreg')]
  /\ UNCHANGED <<tomb, reason, lastId, log, nlog>>

\* case req := <-w.request of the loop
SelectRecv(p) == AtSelect /\ Receive(p, "select")

\* variant of the select of flush without the request case
FlushRecvNever(p) == FALSE /\ UNCHANGED vars

\* case req := <-w.request of flush, followed by continue
FlushRecv(p) == cpc = "flush" /\ Receive(p, "flush")

\* after the completion select of handle: back into flush
Resume ==
  LET f == IF sig.from = "select"
           THEN flush(syncEvents, requestEvents, "sync", Len(syncEvents), "loop")
           ELSE flush(syncEvents, requestEvents, fl.q, fl.i, fl.ret)
  IN /\ cpc' = f.cpc
     /\ fl' = f.fl
     /\ syncEvents' = f.syncEvents
     /\ requestEvents' = f.requestEvents
     /\ sig' = NoSig

\* case r.registeredCh <- nil / r.completedCh <- err, received by the caller
Complete(p) ==
  /\ cpc = "signal"
  /\ sig.to = p
  /\ callers[p].pc = "wait"
  /\ callers[p].call = sig.call
  /\ callers' = [callers EXCEPT ![p] = Returned(@, sig.val)]
  /\ PassOver
  /\ Resume
  /\ UNCHANGED <<tomb, reason, watches, needSync, lastId, log, nlog, nreg,
                 observed, queued, delivered>>

\* case <-w.tomb.Dying() of the completion select of handle
SignalDying ==
  /\ cpc = "signal"
  /\ Dying
  /\ Resume
  /\ UNCHANGED <<tomb, reason, watches, needSync, lastId, log, nlog, callers,
                 nreg, late, observed, queued, delivered>>

\* the event flush is blocked on
Current == IF fl.q = "sync" THEN syncEvents[fl.i] ELSE requestEvents[fl.i]

\* case e.ch <- change: the subscriber receives, flush moves to the next event
Send ==
  /\ cpc = "flush"
  /\ PassOver
  /\ LET e == Current
         se == IF fl.q = "sync"
               THEN [syncEvents EXCEPT ![fl.i].sent = @ + 1] ELSE syncEvents
         re == IF fl.q = "sync"
               THEN requestEvents ELSE [requestEvents EXCEPT ![fl.i].sent = @ + 1]
         f == flush(se, re, fl.q, IF fl.q = "sync" THEN fl.i - 1 ELSE fl.i + 1, fl.ret)
     IN /\ delivered' = [delivered EXCEPT ![e.reg] = Append(@, e.revno)]
        /\ cpc' = f.cpc
        /\ fl' = f.fl
        /\ syncEvents' = f.syncEvents
        /\ requestEvents' = f.requestEvents
  /\ UNCHANGED <<tomb, reason, sig, watches, needSync, lastId, log, nlog, callers,
                 nreg, observed, queued>>

\* case <-w.tomb.Dying() of flush: flush returns, the queues are left as is
FlushDying ==
  /\ cpc = "flush"
  /\ Dying
  /\ cpc' = fl.ret
  /\ fl' = NoFlush
  /\ UNCHANGED <<tomb, reason, sig, watches, needSync, syncEvents, requestEvents,
                 lastId, log, nlog, callers, nreg, late, observed, queued, delivered>>

Next ==
  \/ LogAppend(PlainEntries)
  \/ Kill
  \/ \E p \in Callers : Call(p)
  \/ \E p \in Callers : SendDying(p)
  \/ \E p \in Callers : WaitDying(p)
  \/ InitLastId
  \/ Sync
  \/ SelectDying
  \/ Tick
  \/ \E p \in Callers : SelectRecv(p)
  \/ \E p \in Callers : FlushRecv(p)
  \/ \E p \in Callers : Complete(p)
  \/ SignalDying
  \/ Send
  \/ FlushDying

\* The whole life of a watcher whose log iterator does not fail, over a log
\* of well-formed entries.
Spec == Init /\ [][Next]_vars

NextFail ==
  \/ LogAppend(OneEntry)
  \/ Kill
  \/ \E p \in Callers : Call(p)
  \/ \E p \in Callers : SendDying(p)
  \/ \E p \in Callers : WaitDying(p)
  \/ InitLastId
  \/ InitLastIdFails
  \/ Sync
  \/ SyncFails
  \/ SelectDying
  \/ Tick
  \/ \E p \in Callers : SelectRecv(p)
  \/ \E p \in Callers : FlushRecv(p)
  \/ \E p \in Callers : Complete(p)
  \/ SignalDying
  \/ Send
  \/ FlushDying

NextLive ==
  \/ LogAppend(OneEntry)
  \/ Kill
  \/ \E p \in Callers : Call(p)
  \/ \E p \in Callers : SendDying(p)
  \/ \E p \in Callers : WaitDying(p)
  \/ InitLastId
  \/ Sync
  \/ SelectDying
  \/ Tick
  \/ \E p \in Callers : SelectRecv(p)
  \/ \E p \in Callers : FlushRecv(p)
  \/ \E p \in Callers : Complete(p)
  \/ SignalDying
  \/ Send
  \/ FlushDying

\* What the Go runtime gives the goroutines: a goroutine that can run does
\* run, and a select takes one of its ready cases. tomb.Dying() is a closed
\* channel, ready at every select from Kill on, so the caller's selects
\* (sendReq, sendAndWaitReq, WatchMulti) and the coordinator's (loop, flush,
\* handle) take the Dying case after passing it over finitely often, at
\* most MaxLate times here. The fairness of Sync is written out: over a log
\* without empty documents Sync is enabled exactly when the coordinator is
\* at the top of the for loop with needSync set, no other step of this
\* specification leaves such a state,
\* and WF_vars(Sync) says the coordinator does not stay in one for ever.
Fairness ==
  /\ \A p \in Callers : WF_vars(SendDying(p)) /\ WF_vars(WaitDying(p))
  /\ WF_vars(InitLastId)
  /\ []<>~(cpc = "loop" /\ needSync)
  /\ WF_vars(SelectDying)
  /\ WF_vars(FlushDying)
  /\ WF_vars(SignalDying)

\* The whole life of a watcher whose log iterator does not fail, with the
\* goroutines scheduled fairly, over a log where every entry sets document a
\* of c1 to revno 3. Nothing obliges a subscriber to receive, a
\* caller to call, or the timer to fire.
SpecLive == Init /\ [][NextLive]_vars /\ Fairness

\* The whole life of a watcher whose log iterator may fail, over a log where
\* every entry sets document a of c1 to revno 3.
SpecFail == Init /\ [][NextFail]_vars

NextSync ==
  \/ LogAppend(LogEntries)
  \/ \E p \in Callers : Call(p)
  \/ InitLastId
  \/ Sync
  \/ Tick
  \/ \E p \in Callers : SelectRecv(p)
  \/ \E p \in Callers : FlushRecv(p)
  \/ \E p \in Callers : Complete(p)
  \/ Send

\* A watcher that is not killed and whose log iterator does not fail, over a
\* log of entries of every kind.
SpecSync == Init /\ [][NextSync]_vars

NextEmpty ==
  \/ LogAppend(OneEntry)
  \/ LogAppendEmpty
  \/ \E p \in Callers : Call(p)
  \/ InitLastId
  \/ Sync
  \/ SyncPanics
  \/ Tick
  \/ \E p \in Callers : SelectRecv(p)
  \/ \E p \in Callers : FlushRecv(p)
  \/ \E p \in Callers : Complete(p)
  \/ Send

\* A watcher that is not killed and whose log iterator does not fail, over a
\* log where an entry sets document a of c1 to revno 3 or is an empty
\* document.
SpecEmpty == Init /\ [][NextEmpty]_vars

\* The whole life of a watcher whose callers pass a nil id to WatchMulti,
\* over a log of well-formed entries.
SpecNil == InitNil /\ [][Next]_vars


(***************************************************************************)
(* Properties.                                                             *)
(***************************************************************************)

\* the entries of the registry, each with its key
Entries ==
  UNION {{[key |-> k, info |-> watches[k][i]] : i \in 1..Len(watches[k])} : k \in WatchKeys}
LiveRegs == {e.info.reg : e \in Entries}
DocEntries == {e \in Entries : e.key[2] # Nil}
PendingEvents ==
  {syncEvents[i] : i \in 1..Len(syncEvents)} \cup
  {requestEvents[i] : i \in 1..Len(requestEvents)}

\* this step is the return of caller p from a call whose request has type t
ReturnsFrom(p, t) ==
  /\ callers[p].pc \in {"send", "wait"}
  /\ callers[p].req.type = t
  /\ callers'[p].pc = "idle"

Quiescent ==
  /\ tomb = "alive"
  /\ AtSelect
  /\ syncEvents = <<>>
  /\ requestEvents = <<>>
  /\ (Len(log) = 0 \/ log[Len(log)].id = lastId)

\* C2, over finite runs: once the running coordinator is idle with the log
\* consumed and nothing pending (so that ticks alone deliver nothing more),
\* every document watch still registered has been sent each change a pass
\* reported for it.
C2_NoChangeMissed ==
  Quiescent => \A e \in DocEntries : delivered[e.info.reg] = queued[e.info.reg]

\* every id of the list has an entry with the channel, made by the call of c
AllRegistered(ws, c) ==
  /\ Cardinality(c.made) = Len(c.req.ids)
  /\ \A i \in 1..Len(c.req.ids) :
       \E j \in 1..Len(ws[watchKey(c.req.key[1], c.req.ids[i])]) :
          /\ ws[watchKey(c.req.key[1], c.req.ids[i])][j].ch = c.req.ch
          /\ ws[watchKey(c.req.key[1], c.req.ids[i])][j].reg \in c.made

\* C3 as stated: when WatchMulti returns nil every id is registered with the
\* channel, and when it returns a failure this call has registered nothing.
C3_FailureRegistersNothing ==
  [][\A p \in Callers :
       ReturnsFrom(p, "reqWatchMulti") =>
         IF callers'[p].res = "nil"
         THEN AllRegistered(watches', callers'[p])
         ELSE callers'[p].made = {}]_vars

\* C3: when WatchMulti returns nil every id of the list is registered with
\* the channel; when it returns the duplicate failure the call has
\* registered nothing; when it returns the cancellation failure the call has
\* registered either nothing or every id, never a part of the list.
C3_AllOrNothing ==
  [][\A p \in Callers :
       ReturnsFrom(p, "reqWatchMulti") =>
         CASE callers'[p].res = "nil" -> AllRegistered(watches', callers'[p])
           [] callers'[p].res = "dup" -> callers'[p].made = {}
           [] OTHER -> \/ callers'[p].made = {}
                       \/ AllRegistered(watches', callers'[p])]_vars

\* WatchMulti has returned the cancellation failure with every id registered
C3_Witness ==
  \E p \in Callers :
    /\ callers[p].pc = "idle"
    /\ callers[p].req.type = "reqWatchMulti"
    /\ callers[p].res = "ErrDying"
    /\ callers[p].made # {}
    /\ AllRegistered(watches, callers[p])

\* the channel of request r is registered against an id of its list
AlreadyWatched(r) ==
  \E i \in 1..Len(r.ids) : \E j \in 1..Len(watches[watchKey(r.key[1], r.ids[i])]) :
     watches[watchKey(r.key[1], r.ids[i])][j].ch = r.ch

\* C4: a WatchMulti request whose channel is already registered against an
\* id of its list leaves the registry as it was when the coordinator handles
\* it, the coordinator does not panic and answers with the duplicate error;
\* the call returns an error, and the coordinator goes back to serving.
C4_DuplicateLeavesRegistry ==
  [][\A p \in Callers :
       (callers[p].req.type = "reqWatchMulti" /\ AlreadyWatched(callers[p].req)
        /\ callers[p].made = {}) =>
         /\ (callers[p].pc = "send" /\ callers'[p].pc = "wait" /\ cpc' # cpc) =>
              (watches' = watches /\ cpc' = "signal" /\ sig'.val = "dup")
         /\ ReturnsFrom(p, "reqWatchMulti") =>
              /\ callers'[p].res \in {"dup", "ErrDying"}
              /\ watches' = watches
              /\ cpc' # "panic"
              /\ (callers'[p].res = "dup" => cpc' \in {"loop", "select", "flush"})]_vars

\* the duplicate WatchMulti of a program has failed, the registry holds what
\* it held before, and the coordinator has served the call that follows
C4_Witness ==
  \E p \in Callers :
    /\ callers[p].call = 3
    /\ callers[p].req = StartSync
    /\ callers[p].pc = "idle"
    /\ tomb = "alive"
    /\ cpc \in {"loop", "select", "flush"}
    /\ Len(watches[watchKey("c1", "a")]) = 1
    /\ Len(watches[watchKey("c1", "b")]) = 0

\* C5: an event is put on its channel only while the registration it was
\* queued for is in the registry: nothing is sent for a pair that has been
\* unregistered, whether queued before or after the unregistration.
C5_NoSendAfterUnwatch ==
  [][\A g \in 1..nreg : delivered'[g] # delivered[g] => g \in LiveRegs]_vars

\* an event queued for a registration that has since been removed sits in
\* the queue, unsent and without channel
C5_Witness ==
  \E e \in PendingEvents :
    /\ e.ch = Nil
    /\ e.sent = 0
    /\ e.reg \notin LiveRegs
    /\ delivered[e.reg] # queued[e.reg]

\* s is t with some of its elements left out
RECURSIVE IsSubSeq(_, _)
IsSubSeq(s, t) ==
  IF s = <<>> THEN TRUE
  ELSE IF t = <<>> THEN FALSE
  ELSE IF Head(s) = Head(t) THEN IsSubSeq(Tail(s), Tail(t))
  ELSE IsSubSeq(s, Tail(t))

C7_DeletionReportedOnce ==
  \A e \in DocEntries :
    LET o == observed[e.info.reg]
    IN (Len(o) >= 2 /\ o[1] >= 0 /\ \A i \in 2..Len(o) : o[i] < 0) =>
         /\ queued[e.info.reg] = <<o[1], -1>>
         /\ IsSubSeq(delivered[e.info.reg], queued[e.info.reg])

\* three passes observed 3, -5 and -5: 3 and -1 were queued and delivered
C7_Witness ==
  \E e \in DocEntries :
    /\ observed[e.info.reg] = <<3, -5, -5>>
    /\ queued[e.info.reg] = <<3, -1>>
    /\ delivered[e.info.reg] = <<3, -1>>

\* C8 as stated: a document-level registration whose passes have observed
\* only negative revnos has been queued no event.
C8_UnseenDeletionNotQueued ==
  \A e \in DocEntries :
    LET o == observed[e.info.reg]
    IN (o # <<>> /\ \A i \in 1..Len(o) : o[i] < 0) => queued[e.info.reg] = <<>>

\* C8: a document-level registration whose passes have observed only
\* negative revnos, one pass or several, has been queued exactly one event,
\* with revno -1.
C8_UnseenDeletionQueuedOnce ==
  \A e \in DocEntries :
    LET o == observed[e.info.reg]
    IN (o # <<>> /\ \A i \in 1..Len(o) : o[i] < 0) => queued[e.info.reg] = <<-1>>

\* two passes observed a negative revno for a document never seen present
C8_Witness ==
  \E e \in DocEntries :
    /\ Len(observed[e.info.reg]) = 2
    /\ \A i \in 1..2 : observed[e.info.reg][i] < 0
    /\ queued[e.info.reg] = <<-1>>

\* The log as the next pass finds it: the entries newer than the cursor, and
\* in them the rows (entry e, batch b, index j) of the well-formed batches.
Unread == {i \in 1..Len(log) : log[i].id > lastId}
UnreadRows ==
  UNION {UNION {{[e |-> i, b |-> k, j |-> j] : j \in 1..Len(log[i].batches[k].d)} :
                  k \in {k \in 1..Len(log[i].batches) :
                           Len(log[i].batches[k].d) = Len(log[i].batches[k].r)}} :
           i \in Unread}
RowKey(x) == <<log[x.e].batches[x.b].c, log[x.e].batches[x.b].d[x.j]>>
RowRevno(x) == log[x.e].batches[x.b].r[x.j]
TouchesOf(key) == {x \in UnreadRows : RowKey(x) = key}
Touched == {RowKey(x) : x \in UnreadRows}
\* row x is newer than row y: a later entry; within an entry an earlier
\* batch; within a batch a higher index
Newer(x, y) ==
  x.e > y.e \/ (x.e = y.e /\ (x.b < y.b \/ (x.b = y.b /\ x.j > y.j)))
Newest(key) ==
  CHOOSE x \in TouchesOf(key) : \A y \in TouchesOf(key) : y = x \/ Newer(x, y)

\* this step is a sync pass; the events it appends to the sync queue
SyncStep == cpc = "loop" /\ needSync /\ ~needSync'
NewEvents ==
  IF Len(syncEvents') > Len(syncEvents)
  THEN SubSeq(syncEvents', Len(syncEvents) + 1, Len(syncEvents'))
  ELSE <<>>
EventsFor(evts, g) == {i \in 1..Len(evts) : evts[i].reg = g}
EventsForKey(evts, g, key) == {i \in EventsFor(evts, g) : evts[i].key = key}

\* C9 as stated: a pass whose entries touch a (collection, id) several times
\* queues exactly one event for it for each unfiltered collection-wide entry
\* and at most one for each document-level entry.
C9_ExactlyOnePerPass ==
  [][SyncStep =>
       \A key \in Touched : Cardinality(TouchesOf(key)) >= 2 =>
          \A e \in Entries :
             /\ (e.key = <<key[1], Nil>> /\ e.info.filter = Nil) =>
                  Cardinality(EventsForKey(NewEvents, e.info.reg, key)) = 1
             /\ e.key = key =>
                  Cardinality(EventsForKey(NewEvents, e.info.reg, key)) <= 1]_vars

\* C9: a pass whose entries touch a (collection, id) several times queues at
\* most one event for it for every entry of the registry; for an unfiltered
\* collection-wide entry it queues exactly one when the newest row touching
\* the pair carries an int64 revno, and none when it does not.
C9_AtMostOnePerPass ==
  [][SyncStep =>
       \A key \in Touched : Cardinality(TouchesOf(key)) >= 2 =>
          \A e \in Entries :
             /\ Cardinality(EventsForKey(NewEvents, e.info.reg, key)) <= 1
             /\ (e.key = <<key[1], Nil>> /\ e.info.filter = Nil) =>
                  Cardinality(EventsForKey(NewEvents, e.info.reg, key)) =
                    (IF RowRevno(Newest(key)).ok THEN 1 ELSE 0)]_vars

\* the latest pass consumed an entry listing document a twice and queued one
\* event for a on behalf of an unfiltered collection-wide entry
C9_Witness ==
  /\ cpc = "flush"
  /\ fl.ret = "select"
  /\ log # <<>>
  /\ log[Len(log)].id = lastId
  /\ Len(log[Len(log)].batches) = 2
  /\ log[Len(log)].batches[2] = Batch("c1", <<"a", "a">>, <<I64(1), I64(2)>>)
  /\ \E e \in Entries :
       /\ e.key = <<"c1", Nil>>
       /\ e.info.filter = Nil
       /\ Cardinality(EventsForKey(syncEvents, e.info.reg, <<"c1", "a">>)) = 1

\* C10 as stated: for an unfiltered collection-wide entry a pass queues
\* exactly one event per document of the collection it touches, carrying
\* the newest revno logged for that document.
C10_OnePerDocumentAsLogged ==
  [][SyncStep =>
       \A e \in Entries : (e.key[2] = Nil /\ e.info.filter = Nil) =>
          LET docs == {key \in Touched : key[1] = e.key[1]}
              mine == EventsFor(NewEvents, e.info.reg)
          IN /\ Cardinality(mine) = Cardinality(docs)
             /\ {<<NewEvents[i].key, NewEvents[i].revno>> : i \in mine} =
                  {<<key, RowRevno(Newest(key)).v>> : key \in docs}]_vars

\* C10: for an unfiltered collection-wide entry a pass queues, on the
\* entry's channel, exactly one event per document of the collection whose
\* newest row in the entries consumed carries an int64 revno, with that
\* revno, or -1 when it is negative; it queues nothing else for the entry.
C10_OnePerDocumentNormalised ==
  [][SyncStep =>
       \A e \in Entries : (e.key[2] = Nil /\ e.info.filter = Nil) =>
          LET docs == {key \in Touched : key[1] = e.key[1] /\ RowRevno(Newest(key)).ok}
              mine == EventsFor(NewEvents, e.info.reg)
              rev(key) == IF RowRevno(Newest(key)).v < 0 THEN -1
                          ELSE RowRevno(Newest(key)).v
          IN /\ Cardinality(mine) = Cardinality(docs)
             /\ \A i \in mine : NewEvents[i].ch = e.info.ch
             /\ {<<NewEvents[i].key, NewEvents[i].revno>> : i \in mine} =
                  {<<key, rev(key)>> : key \in docs}]_vars

\* a pass over ids (a, b) with revnos (1, 2) has queued exactly (a, 1) and
\* (b, 2) for an unfiltered collection-wide entry
C10_Witness ==
  /\ cpc = "flush"
  /\ fl.ret = "select"
  /\ \E e \in Entries :
       /\ e.key = <<"c1", Nil>>
       /\ e.info.filter = Nil
       /\ Cardinality(EventsFor(syncEvents, e.info.reg)) = 2
       /\ {<<syncEvents[i].key, syncEvents[i].revno>> :
             i \in EventsFor(syncEvents, e.info.reg)} =
            {<<<<"c1", "a">>, 1>>, <<<<"c1", "b">>, 2>>}

\* C11: for a collection-wide entry registered with the filter that accepts
\* only id "a", a pass queues one event for each document of the collection
\* it observes (the newest row for it carries an int64 revno) that is "a",
\* and no event for any other document.
C11_FilterDecides ==
  [][SyncStep =>
       \A e \in Entries : (e.key[2] = Nil /\ e.info.filter = FilterA) =>
          \A id \in Ids :
             Cardinality(EventsForKey(NewEvents, e.info.reg, <<e.key[1], id>>)) =
               (IF /\ <<e.key[1], id>> \in Touched
                   /\ RowRevno(Newest(<<e.key[1], id>>)).ok
                   /\ id = "a"
                THEN 1 ELSE 0)]_vars

\* a pass over documents a and b has queued the event of a, and none for b,
\* for the entry registered with the filter
C11_Witness ==
  /\ cpc = "flush"
  /\ fl.ret = "select"
  /\ log # <<>>
  /\ log[Len(log)].id = lastId
  /\ log[Len(log)].batches = <<Batch("c1", <<"a", "b">>, <<I64(1), I64(2)>>)>>
  /\ \E e \in Entries :
       /\ e.info.filter = FilterA
       /\ Cardinality(EventsForKey(syncEvents, e.info.reg, <<"c1", "a">>)) = 1
       /\ EventsForKey(syncEvents, e.info.reg, <<"c1", "b">>) = {}

\* C12: the registry holds at most one entry per (watch key, channel) pair.
C12_OneEntryPerPair ==
  \A k \in WatchKeys : \A i, j \in 1..Len(watches[k]) :
     watches[k][i].ch = watches[k][j].ch => i = j

\* the change event y was made from is older than the one x was made from:
\* an earlier log entry, or a lower index in the same delta batch
Older(y, x) ==
  \/ y.src.e < x.src.e
  \/ (y.src.e = x.src.e /\ y.src.b = x.src.b /\ y.src.j < x.src.j)

\* C13: when an event is put on its channel, every event the same pass
\* queued for the same channel from an older change (an earlier log entry,
\* or a lower index of the same delta batch) and that is still due has
\* already been put on the channel.
C13_OldestFirst ==
  [][(cpc = "flush" /\ delivered' # delivered) =>
       \A k \in 1..Len(syncEvents) :
          (/\ syncEvents[k].pass = Current.pass
           /\ syncEvents[k].och = Current.och
           /\ syncEvents[k].ch # Nil
           /\ Older(syncEvents[k], Current)) => syncEvents[k].sent >= 1]_vars

\* of two events of one pass for one channel, the one made from the earlier
\* log entry has been sent and the other is still to be sent
C13_Witness ==
  \E i, k \in 1..Len(syncEvents) :
    /\ syncEvents[i].pass = syncEvents[k].pass
    /\ syncEvents[i].och = syncEvents[k].och
    /\ syncEvents[k].src.e < syncEvents[i].src.e
    /\ syncEvents[k].sent = 1
    /\ syncEvents[i].sent = 0
    /\ syncEvents[i].ch # Nil
    /\ cpc = "flush"

\* C14: events of two passes are in the sync queue together only when every
\* event of the older pass has been put on its channel or purged: a pass
\* starts, and its events are delivered, only after that.
C14_PassesInOrder ==
  \A i, k \in 1..Len(syncEvents) :
     syncEvents[i].pass < syncEvents[k].pass =>
        (syncEvents[i].ch = Nil \/ syncEvents[i].sent >= 1)

\* flush is blocked on the send of an event, or inside a handle it called
\* from the select of that send
InFlush == cpc = "flush" \/ (cpc = "signal" /\ sig.from = "flush")

\* C15: while the running coordinator is blocked in flush on a send nobody
\* receives, it can take the request of a caller that is sending one, and
\* the completion of a synchronous call it has handled can be received; a
\* request taken there is applied (entry added, entry removed, sync asked
\* for, or the duplicate error answered), and afterwards the coordinator is
\* blocked on the same event again unless that event was purged.
C15_RequestsServedInFlush ==
  /\ [](\A p \in Callers :
          /\ (tomb = "alive" /\ cpc = "flush" /\ callers[p].pc = "send")
               => ENABLED FlushRecv(p)
          /\ (tomb = "alive" /\ InFlush /\ cpc = "signal" /\ sig.to = p
              /\ callers[p].pc = "wait")
               => ENABLED Complete(p))
  /\ [][\A p \in Callers :
          (cpc = "flush" /\ callers[p].pc = "send" /\ callers'[p].pc # "send"
           /\ cpc' # cpc /\ tomb = "alive") =>
             LET r == callers[p].req
             IN CASE r.type = "reqSync" -> needSync'
                  [] r.type = "reqWatch" -> hasChan(watches'[r.key], r.ch)
                  [] r.type = "reqUnwatch" ->
                       Len(watches'[r.key]) = Len(watches[r.key]) - 1
                  [] r.type = "reqWatchMulti" ->
                       \/ sig'.val = "dup" /\ watches' = watches
                       \/ sig'.val = "nil" /\ AllRegistered(watches', callers'[p])]_vars
  /\ [][(InFlush /\ tomb' = "alive" /\ delivered' = delivered /\ cpc' # "panic"
         /\ LET q == IF fl.q = "sync" THEN syncEvents' ELSE requestEvents'
            IN fl.i \in 1..Len(q) /\ q[fl.i].ch # Nil) =>
           (InFlush' /\ fl' = fl)]_vars

\* flush is still blocked on an event it has not sent, and a Watch call made
\* meanwhile has returned with its entry registered
C15_Witness ==
  \E p \in Callers :
    /\ cpc = "flush"
    /\ tomb = "alive"
    /\ Current.sent = 0
    /\ callers[p].pc = "idle"
    /\ callers[p].req.type = "reqWatch"
    /\ callers[p].res = "nil"
    /\ \E e \in Entries :
         /\ e.info.reg \in callers[p].made
         /\ e.info.reg > Current.reg

\* C16, over finite runs: the running coordinator never waits in the select
\* of its loop (for the timer or for a request) while a sync is asked for.
C16_NoWaitWithSyncDue ==
  ~(tomb = "alive" /\ cpc = "select" /\ needSync)

TombRank(t) == CASE t = "alive" -> 0 [] t = "dying" -> 1 [] t = "dead" -> 2

\* C17: the tomb only moves forward, alive to dying to dead (a failed loop
\* takes it to dead in one step), and once it is dead the registry, the
\* cursor, the queues and what has been delivered never change again.
C17_Lifecycle ==
  [][/\ TombRank(tomb') >= TombRank(tomb)
     /\ tomb = "dead" =>
          /\ tomb' = "dead"
          /\ UNCHANGED <<watches, lastId, needSync, syncEvents, requestEvents,
                         queued, observed, delivered, cpc, reason>>]_vars

\* the watcher is dead with an event still queued and unsent, and a caller
\* has given up a call since
C17_Witness ==
  /\ tomb = "dead"
  /\ \E i \in 1..Len(syncEvents) : syncEvents[i].ch # Nil /\ syncEvents[i].sent = 0
  /\ \E p \in Callers : callers[p].pc = "idle" /\ callers[p].res = "ErrDying"

\* C20: once a pass has ended with the position-lost error the watcher is
\* dead, the cause Wait returns is ErrRestartAgent, and nothing is put on a
\* channel any more, so the events that pass queued stay undelivered.
C20_PositionLost ==
  /\ [](cpc = "restart" => (tomb = "dead" /\ reason = "ErrRestartAgent"))
  /\ [][cpc = "restart" =>
          /\ delivered' = delivered
          /\ syncEvents' = syncEvents
          /\ cpc' = "restart"]_vars

\* a pass has ended with the position-lost error after queueing an event,
\* which is in the queue, unsent
C20_Witness ==
  /\ cpc = "restart"
  /\ reason = "ErrRestartAgent"
  /\ \E i \in 1..Len(syncEvents) :
       /\ syncEvents[i].pass = lastId
       /\ syncEvents[i].ch # Nil
       /\ syncEvents[i].sent = 0
       /\ delivered[syncEvents[i].reg] = <<>>

UnblocksUnlessAborted ==
  /\ \A p \in Callers :
        (Dying /\ callers[p].pc \in {"send", "wait"})
           ~> (callers[p].pc = "idle" \/ Crashed)
  /\ (Dying /\ cpc = "signal") ~> (cpc # "signal")
  /\ [][\A p \in Callers :
          (/\ callers[p].req.type = "reqWatchMulti"
           /\ callers[p].pc # "idle"
           /\ callers'[p].pc = "idle"
           /\ sig' = sig) => callers'[p].res = "ErrDying"]_vars

DiesUnlessAborted ==
  /\ (tomb = "dying") ~> (tomb = "dead" \/ Crashed)
  /\ [](tomb = "dead" => (cpc = "dead" /\ reason = Nil))

\* C21: when initLastId or the iterator of a pass has failed with a generic
\* I/O error the watcher is dead and the cause Wait returns is that error;
\* the loop has returned: from then on the coordinator reads no log entry,
\* moves no cursor, queues and delivers nothing, and stays where it is.
C21_IOFailureStops ==
  /\ [](cpc = "failed" => (tomb = "dead" /\ reason = "io"))
  /\ [][cpc = "failed" =>
          /\ cpc' = "failed"
          /\ UNCHANGED <<lastId, watches, syncEvents, requestEvents, needSync,
                         observed, queued, delivered, reason, tomb>>]_vars

\* the iterator of a pass failed with the I/O error after the pass had
\* queued an event, and a caller has made a call since
C21_Witness ==
  /\ cpc = "failed"
  /\ reason = "io"
  /\ lastId > 0
  /\ \E i \in 1..Len(syncEvents) : syncEvents[i].pass = lastId /\ syncEvents[i].sent = 0
  /\ \E p \in Callers : callers[p].pc = "idle" /\ callers[p].call >= 2

\* entry i of the log has a batch whose id and revno lists differ in length
\* or are empty
Malformed(i) ==
  \E k \in 1..Len(log[i].batches) :
     \/ Len(log[i].batches[k].d) = 0
     \/ Len(log[i].batches[k].d) # Len(log[i].batches[k].r)

\* C22: a pass that reads an entry with a malformed batch completes, the
\* watcher goes on, and the cursor is the id of the newest entry; every
\* document touched by a well-formed batch of the entries read, whose newest
\* row carries an int64 revno, has its event queued for each collection-wide
\* entry whose filter accepts it and for each document-level entry the
\* per-document rule selects; every event queued comes from a row of a
\* well-formed batch.
C22_MalformedBatchSkipped ==
  [][(SyncStep /\ \E i \in Unread : Malformed(i)) =>
       /\ cpc' \in {"select", "flush"}
       /\ tomb' = tomb
       /\ lastId' = log[Len(log)].id
       /\ \A key \in Touched : RowRevno(Newest(key)).ok =>
            LET v == RowRevno(Newest(key)).v
                rev == IF v < 0 THEN -1 ELSE v
            IN \A e \in Entries :
                 (\/ /\ e.key = <<key[1], Nil>>
                     /\ (e.info.filter = Nil \/ ApplyFilter(e.info.filter, key[2]))
                  \/ /\ e.key = key
                     /\ (rev > e.info.revno \/ (rev < 0 /\ e.info.revno >= 0))) =>
                   \E i \in 1..Len(NewEvents) :
                      /\ NewEvents[i].reg = e.info.reg
                      /\ NewEvents[i].ch = e.info.ch
                      /\ NewEvents[i].key = key
                      /\ NewEvents[i].revno = rev
       /\ \A i \in 1..Len(NewEvents) :
            \E x \in UnreadRows :
               /\ NewEvents[i].src = [e |-> log[x.e].id, b |-> x.b, j |-> x.j]
               /\ NewEvents[i].key = RowKey(x)]_vars

\* the latest pass has read an entry that starts with a batch of two ids and
\* one revno, and the batch of c1 that follows it has given an event for
\* document a; an earlier pass had queued, for the same registration, the
\* deletion logged by the entry that starts with an empty batch
C22_Witness ==
  /\ cpc = "flush"
  /\ log # <<>>
  /\ log[Len(log)].id = lastId
  /\ Len(log[Len(log)].batches[1].d) = 2
  /\ Len(log[Len(log)].batches[1].r) = 1
  /\ \E i \in 1..Len(syncEvents) :
       /\ syncEvents[i].src.e = lastId
       /\ syncEvents[i].src.b = 2
       /\ syncEvents[i].key = <<"c1", "a">>
       /\ syncEvents[i].revno = 2
       /\ \E n \in 1..Len(queued[syncEvents[i].reg]) : queued[syncEvents[i].reg][n] = -1

\* the number of entries of registry ws under key k whose channel is ch
CountOf(ws, k, ch) == Cardinality({i \in 1..Len(ws[k]) : ws[k][i].ch = ch})

\* C23: when the coordinator takes the request of a Watch, WatchCollection
\* or WatchCollectionWithFilter whose (key, channel) pair has an entry, it
\* panics and leaves the registry, the registration count and the queues as
\* they were; when the pair has no entry it does not panic and the pair has
\* exactly one entry afterwards. A coordinator that has panicked takes no
\* further step, and neither does anything else in the process.
C23_DuplicateWatchPanics ==
  /\ [][\A p \in Callers :
          (/\ callers[p].req.type = "reqWatch"
           /\ callers[p].pc = "send"
           /\ callers'[p].pc = "wait") =>
            IF CountOf(watches, callers[p].req.key, callers[p].req.ch) >= 1
            THEN /\ cpc' = "panic"
                 /\ UNCHANGED <<watches, nreg, syncEvents, requestEvents, needSync>>
            ELSE /\ cpc' # "panic"
                 /\ CountOf(watches', callers[p].req.key, callers[p].req.ch) = 1]_vars
  /\ [][cpc # "panic"]_vars

\* the coordinator has panicked on a Watch whose pair was registered, and
\* the pair still has its one entry
C23_Witness ==
  /\ cpc = "panic"
  /\ \E p \in Callers :
       /\ callers[p].req.type = "reqWatch"
       /\ callers[p].pc = "wait"
       /\ callers[p].made = {}
       /\ CountOf(watches, callers[p].req.key, callers[p].req.ch) = 1

\* C24: when the coordinator takes the request of an Unwatch or
\* UnwatchCollection whose (key, channel) pair has no entry, it panics and
\* leaves the registry and both queues as they were; when the pair has an
\* entry it does not panic and the key has one entry less afterwards. (A
\* request is taken when the call leaves its select on a running watcher,
\* or when a select of the coordinator passed over Dying in that step.)
C24_UnwatchMissingPanics ==
  [][\A p \in Callers :
       (/\ callers[p].req.type = "reqUnwatch"
        /\ callers[p].pc = "send"
        /\ callers'[p].pc # "send"
        /\ (tomb = "alive" \/ late' # late)) =>
         IF CountOf(watches, callers[p].req.key, callers[p].req.ch) = 0
         THEN /\ cpc' = "panic"
              /\ UNCHANGED <<watches, syncEvents, requestEvents, nreg, needSync>>
         ELSE /\ cpc' # "panic"
              /\ Len(watches'[callers[p].req.key]) =
                   Len(watches[callers[p].req.key]) - 1]_vars

\* the coordinator has panicked on an UnwatchCollection whose pair has no
\* entry, and the entry another channel has under that key is still there
C24_Witness ==
  /\ cpc = "panic"
  /\ \E p \in Callers :
       /\ callers[p].req.type = "reqUnwatch"
       /\ callers[p].req.key[2] = Nil
       /\ callers[p].pc = "idle"
       /\ CountOf(watches, callers[p].req.key, callers[p].req.ch) = 0
       /\ Len(watches[callers[p].req.key]) = 1

\* C25: every revno put on a subscriber channel is >= -1, and so is every
\* revno waiting in a queue; an event a pass queues carries the revno of the
\* row it was made from when that is not negative, and -1 when it is.
C25_RevnoAtLeastMinusOne ==
  /\ [](/\ \A g \in 1..Len(delivered) : \A i \in 1..Len(delivered[g]) :
             delivered[g][i] >= -1
        /\ \A e \in PendingEvents : e.revno >= -1)
  /\ [][SyncStep =>
          \A i \in 1..Len(NewEvents) :
             \E x \in UnreadRows :
                /\ NewEvents[i].src = [e |-> log[x.e].id, b |-> x.b, j |-> x.j]
                /\ RowRevno(x).ok
                /\ NewEvents[i].revno =
                     (IF RowRevno(x).v < 0 THEN -1 ELSE RowRevno(x).v)]_vars

\* a collection-wide registration and a document-level one that started from
\* the sentinel have both been sent -1 for a revno logged as -5
C25_Witness ==
  /\ \E e \in Entries :
       /\ e.key[2] = Nil
       /\ \E i \in 1..Len(delivered[e.info.reg]) : delivered[e.info.reg][i] = -1
  /\ \E e \in DocEntries :
       /\ observed[e.info.reg] # <<>>
       /\ observed[e.info.reg][1] = -5
       /\ delivered[e.info.reg] = <<-1>>

\* C26: initLastId sets the cursor to the id of the newest entry in the log
\* at that moment (nil, 0 here, when the log is empty); from then on the
\* cursor never moves back; a pass leaves it at the newest entry of the log
\* and every event it queues comes from an entry newer than the cursor it
\* started from, so none comes from an entry at or before the initial
\* cursor; and a pass that starts from the nil cursor reads every entry of
\* the log: each document a well-formed batch of any entry lists, oldest
\* entry included, counts as touched by the pass and, when its newest row
\* carries an int64 revno, is reported to every unfiltered collection-wide
\* entry.
C26_CursorForward ==
  [][/\ lastId' >= lastId
     /\ (cpc = "init" /\ cpc' = "loop") =>
          lastId' = (IF log = <<>> THEN 0 ELSE log[Len(log)].id)
     /\ SyncStep =>
          /\ lastId' = (IF log = <<>> THEN lastId ELSE log[Len(log)].id)
          /\ \A i \in 1..Len(NewEvents) :
               NewEvents[i].src.e > lastId /\ NewEvents[i].src.e <= lastId'
          /\ lastId = 0 =>
               \A n \in 1..Len(log) : \A k \in 1..Len(log[n].batches) :
                  LET b == log[n].batches[k]
                  IN Len(b.d) = Len(b.r) =>
                       \A j \in 1..Len(b.d) :
                          LET key == <<b.c, b.d[j]>>
                          IN /\ [e |-> n, b |-> k, j |-> j] \in TouchesOf(key)
                             /\ RowRevno(Newest(key)).ok =>
                                  \A e \in Entries :
                                     (e.key = <<b.c, Nil>> /\ e.info.filter = Nil) =>
                                       EventsForKey(NewEvents, e.info.reg, key) # {}]_vars

\* a pass that started from the nil cursor has read two entries or more and
\* queued an event made from the oldest, the first entry ever logged
C26_Witness ==
  /\ cpc = "flush"
  /\ lastId >= 2
  /\ \E i \in 1..Len(syncEvents) :
       /\ syncEvents[i].src.e = 1
       /\ syncEvents[i].pass = lastId
       /\ syncEvents[i].ch # Nil

\* the revno the pass takes from the newest row touching key: as logged, or
\* -1 when negative
PassRevno(key) ==
  IF RowRevno(Newest(key)).v < 0 THEN -1 ELSE RowRevno(Newest(key)).v

\* the revno last queued for registration g, -2 when none was
LastReported(g) == IF queued[g] = <<>> THEN -2 ELSE queued[g][Len(queued[g])]

C28_NoHighWaterMark ==
  /\ [](\A e \in Entries : e.key[2] = Nil => e.info.revno = 0)
  /\ [][SyncStep =>
          \A e \in Entries : e.key[2] = Nil =>
             \A key \in Touched :
                (/\ key[1] = e.key[1]
                 /\ RowRevno(Newest(key)).ok
                 /\ (e.info.filter = Nil \/ ApplyFilter(e.info.filter, key[2]))) =>
                  /\ Cardinality(EventsForKey(NewEvents, e.info.reg, key)) = 1
                  /\ \A i \in EventsForKey(NewEvents, e.info.reg, key) :
                       /\ NewEvents[i].revno = PassRevno(key)
                       /\ NewEvents[i].ch = e.info.ch]_vars

\* three passes have queued 3, then -1, then -1 again for a collection-wide
\* entry: a lower revno, an equal one, a deletion reported twice
C28_Witness ==
  \E e \in Entries :
    /\ e.key[2] = Nil
    /\ queued[e.info.reg] = <<3, -1, -1>>
    /\ delivered[e.info.reg] = <<3, -1, -1>>

\* C29: in a pass, for every document key whose newest row carries an int64
\* revno (rev, -1 when negative) and every entry under that key, with stored
\* revno last: when rev > last, or rev < 0 and last >= 0, the pass queues
\* one event for the entry and stores rev in it; otherwise it queues none
\* and leaves the stored revno as it was. The entries of a key are decided
\* one by one, each on its own stored revno; entries of other keys, and the
\* channels and filters of all, are left as they were.
C29_PerDocumentRule ==
  [][SyncStep =>
       \A key \in WatchKeys : key[2] # Nil =>
          /\ Len(watches'[key]) = Len(watches[key])
          /\ \A k \in 1..Len(watches[key]) :
               LET old == watches[key][k]
                   new == watches'[key][k]
                   n == Cardinality(EventsFor(NewEvents, old.reg))
                   obs == key \in Touched /\ RowRevno(Newest(key)).ok
                   hit == obs /\ (\/ PassRevno(key) > old.revno
                                  \/ PassRevno(key) < 0 /\ old.revno >= 0)
               IN /\ new.ch = old.ch /\ new.reg = old.reg /\ new.filter = old.filter
                  /\ hit => (n = 1 /\ new.revno = PassRevno(key))
                  /\ ~hit => (n = 0 /\ new.revno = old.revno)]_vars

\* two channels watch document a, one reported revno 3 before the other
\* registered; the pass that observed revno 1 queued it for the second only,
\* and the two entries now store 3 and 1
C29_Witness ==
  \E e1, e2 \in DocEntries :
    /\ e1.key = e2.key
    /\ e1.info.ch # e2.info.ch
    /\ e1.info.revno = 3
    /\ e2.info.revno = 1
    /\ queued[e1.info.reg] = <<3>>
    /\ observed[e1.info.reg] = <<3, 1>>
    /\ queued[e2.info.reg] = <<1>>

\* C30: every event a pass queues for a document is made from the newest
\* row touching the document in the entries the pass reads (the newest
\* entry; in a batch that lists the id several times, the highest index),
\* and carries that row's revno, -1 when it is negative.
C30_NewestWins ==
  [][SyncStep =>
       \A i \in 1..Len(NewEvents) :
          LET key == NewEvents[i].key
          IN /\ key \in Touched
             /\ NewEvents[i].src = [e |-> log[Newest(key).e].id,
                                    b |-> Newest(key).b, j |-> Newest(key).j]
             /\ RowRevno(Newest(key)).ok
             /\ NewEvents[i].revno = PassRevno(key)]_vars

\* one pass has read the entry setting a and b to 1 and 2 and, after it, the
\* entry setting a to 3: it queued b with 2 from the older entry and a with
\* 3 from the newer one
C30_Witness ==
  \E i, k \in 1..Len(syncEvents) :
    /\ syncEvents[i].pass = lastId
    /\ syncEvents[k].pass = lastId
    /\ syncEvents[i].key = <<"c1", "a">>
    /\ syncEvents[i].revno = 3
    /\ syncEvents[i].src.e = lastId
    /\ syncEvents[k].key = <<"c1", "b">>
    /\ syncEvents[k].revno = 2
    /\ syncEvents[k].src.e = lastId - 1
    /\ \A n \in 1..Len(syncEvents) : syncEvents[n].key = <<"c1", "a">> => n = i

\* C31: a pass stores the id of the newest entry of the log as the cursor;
\* every event it queues is made from an entry newer than the cursor it
\* started from, so no entry is read by two passes; and no entry newer than
\* that cursor is skipped: for each document whose newest row among those
\* entries carries an int64 revno, every unfiltered collection-wide entry is
\* queued an event made from exactly that row, whichever entry it is in.
C31_EachEntryOnce ==
  [][SyncStep =>
       /\ lastId' = (IF log = <<>> THEN lastId ELSE log[Len(log)].id)
       /\ \A i \in 1..Len(NewEvents) :
            \E n \in Unread : NewEvents[i].src.e = log[n].id
       /\ \A x \in UnreadRows :
            (x = Newest(RowKey(x)) /\ RowRevno(x).ok) =>
               \A e \in Entries :
                  (e.key = <<RowKey(x)[1], Nil>> /\ e.info.filter = Nil) =>
                     \E i \in 1..Len(NewEvents) :
                        /\ NewEvents[i].reg = e.info.reg
                        /\ NewEvents[i].src = [e |-> log[x.e].id, b |-> x.b, j |-> x.j]]_vars

\* a document-level registration has been queued events by two passes, the
\* later one made from the newest entry, read by a pass that started from a
\* cursor that was not nil
C31_Witness ==
  /\ cpc = "flush"
  /\ lastId >= 2
  /\ \E e \in DocEntries :
       /\ Len(queued[e.info.reg]) >= 2
       /\ \E i \in 1..Len(syncEvents) :
            /\ syncEvents[i].reg = e.info.reg
            /\ syncEvents[i].src.e = lastId
            /\ syncEvents[i].pass = lastId
            /\ syncEvents[i].sent = 0

\* C32: no event waiting in a queue has been put on its channel more than
\* once, Kill or no Kill; and whenever the running coordinator is out of
\* flush, at the top of its loop or in the select of the loop, both queues
\* are empty.
C32_SentAtMostOnce ==
  /\ \A e \in PendingEvents : e.sent <= 1
  /\ (tomb = "alive" /\ cpc \in {"loop", "select"}) =>
       (syncEvents = <<>> /\ requestEvents = <<>>)

\* the registration a reqUnwatch for (key, ch) removes: the first entry of
\* the key with the channel
Unregistered(key, ch) ==
  LET i == CHOOSE j \in 1..Len(watches[key]) :
             watches[key][j].ch = ch /\ \A k \in 1..(j - 1) : watches[key][k].ch # ch
  IN watches[key][i]

\* C33: when the coordinator takes an Unwatch or UnwatchCollection whose
\* pair is registered, the entries of every other key are unchanged, the
\* key loses that one entry and keeps its others, and every event waiting
\* unsent on behalf of another registration is still waiting afterwards
\* with its channel (said of a registry that holds one entry per pair).
C33_OthersUntouched ==
  [][\A p \in Callers :
       (/\ callers[p].req.type = "reqUnwatch"
        /\ callers[p].pc = "send"
        /\ callers'[p].pc # "send"
        /\ (tomb = "alive" \/ late' # late)
        /\ cpc' # "panic"
        /\ C12_OneEntryPerPair) =>
         LET r == callers[p].req
             gone == Unregistered(r.key, r.ch)
         IN /\ \A k \in WatchKeys \ {r.key} : watches'[k] = watches[k]
            /\ {watches'[r.key][i] : i \in 1..Len(watches'[r.key])} =
                 {watches[r.key][i] : i \in 1..Len(watches[r.key])} \ {gone}
            /\ Len(watches'[r.key]) = Len(watches[r.key]) - 1
            /\ \A i \in 1..Len(syncEvents) :
                 (/\ syncEvents[i].reg # gone.reg
                  /\ syncEvents[i].ch # Nil
                  /\ syncEvents[i].sent = 0) =>
                   /\ i <= Len(syncEvents')
                   /\ syncEvents'[i] = syncEvents[i]]_vars

\* the events of the sync queue that still wait to be put on channel ch
Waiting(ch) ==
  {i \in 1..Len(syncEvents) : syncEvents[i].ch = ch /\ syncEvents[i].sent = 0}

\* C34 as stated, over finite runs: while the running coordinator is blocked
\* in flush on the send of an event, no event waits for another channel
\* behind it (a subscriber that never receives would hold that event back
\* for ever, and with it every later pass).
C34_DeliveryIndependent ==
  (tomb = "alive" /\ cpc = "flush") =>
     \A ch \in Chans : Waiting(ch) # {} => Current.ch = ch

\* C34: flush offers one event at a time, from the last index of the sync
\* queue down, whatever the channels: while the running coordinator is
\* blocked on the send of an event, every event at a lower index is still
\* unsent and every event with a channel at a higher index has been sent;
\* a step taken from there delivers nothing to any registration other than
\* the one of that event and moves neither the cursor nor the log, so the
\* events behind it and the later log changes wait until its subscriber
\* receives, its pair is unregistered, or the watcher is killed.
C34_HeldBehindBlockedSend ==
  /\ []((tomb = "alive" /\ cpc = "flush" /\ fl.q = "sync") =>
          /\ \A i \in 1..(fl.i - 1) : syncEvents[i].sent = 0
          /\ \A i \in (fl.i + 1)..Len(syncEvents) :
               syncEvents[i].ch = Nil \/ syncEvents[i].sent = 1)
  /\ [][(tomb = "alive" /\ cpc = "flush") =>
          /\ \A g \in 1..Len(delivered) :
               g # Current.reg => delivered'[g] = delivered[g]
          /\ lastId' = lastId
          /\ log' = log
          /\ (delivered' = delivered /\ tomb' = "alive" /\ cpc' # "panic"
              /\ fl.q = "sync" /\ fl.i <= Len(syncEvents')
              /\ syncEvents'[fl.i].ch # Nil) =>
               \A ch \in Chans :
                  Waiting(ch) \subseteq {i \in 1..Len(syncEvents') :
                                           syncEvents'[i].sent = 0}]_vars

\* the running coordinator is blocked on the send of an event for ch2 that
\* nobody receives; the subscriber of ch1 has received the event ahead of it
\* and another event for ch1 waits behind it
C34_Witness ==
  /\ tomb = "alive"
  /\ cpc = "flush"
  /\ Current.ch = "ch2"
  /\ Current.sent = 0
  /\ \E i \in Waiting("ch1") : i < fl.i
  /\ \E i \in (fl.i + 1)..Len(syncEvents) :
       syncEvents[i].ch = "ch1" /\ syncEvents[i].sent = 1

\* C35: on a running watcher the coordinator never panics on a request it
\* takes from a caller whose calls, each made after the one before has
\* returned, unregister only what they registered and register only what
\* they unregistered: a Watch taken finds its pair without an entry and
\* leaves it with one, an Unwatch taken finds the entry the Watch before it
\* made.
C35_CallOrder ==
  [][\A p \in Callers :
       (callers[p].pc = "send" /\ callers'[p].pc # "send" /\ tomb = "alive") =>
          LET r == callers[p].req
          IN /\ cpc' # "panic"
             /\ r.type = "reqWatch" =>
                  /\ CountOf(watches, r.key, r.ch) = 0
                  /\ CountOf(watches', r.key, r.ch) = 1
             /\ r.type = "reqUnwatch" =>
                  /\ CountOf(watches, r.key, r.ch) >= 1
                  /\ CountOf(watches', r.key, r.ch) =
                       CountOf(watches, r.key, r.ch) - 1]_vars

\* on a running watcher a caller's Watch, Unwatch and Watch of one pair
\* have all returned, and the pair has the entry the second Watch made
C35_Witness ==
  /\ tomb = "alive"
  /\ cpc # "panic"
  /\ \E p \in Callers :
       /\ callers[p].pc = "idle"
       /\ callers[p].call = 3
       /\ callers[p].req = Watch("c1", "a", "ch1")
       /\ callers[p].res = "nil"
       /\ CountOf(watches, <<"c1", "a">>, "ch1") = 1
       /\ \E i \in 1..Len(watches[<<"c1", "a">>]) :
            watches[<<"c1", "a">>][i].reg = 2

\* C36: the request queue is empty in every reachable state, flush is never
\* blocked on an event of it, and every event put on a channel is taken
\* from the sync queue.
C36_RequestQueueEmpty ==
  /\ [](requestEvents = <<>> /\ (cpc = "flush" => fl.q = "sync"))
  /\ [][(\E g \in 1..Len(delivered) : delivered'[g] # delivered[g]) =>
          /\ cpc = "flush"
          /\ fl.q = "sync"
          /\ fl.i \in 1..Len(syncEvents)
          /\ delivered' = [delivered EXCEPT ![syncEvents[fl.i].reg] =
                             Append(@, syncEvents[fl.i].revno)]]_vars

\* a caller has had a registration, an unregistration and a third call
\* served, a pass has queued an event that has been delivered, and the
\* request queue is empty
C36_Witness ==
  /\ requestEvents = <<>>
  /\ \E g \in 1..Len(delivered) : delivered[g] # <<>>
  /\ \E p \in Callers :
       /\ callers[p].pc = "idle"
       /\ callers[p].call = 3
       /\ callers[p].todo = <<>>
  /\ nreg >= 2
  /\ Cardinality(LiveRegs) < nreg

\* C37: a pass that comes to an empty document does not crash or end the
\* watcher: the coordinator goes on to its flush, the cursor is the id of
\* the newest entry that has one, and an entry the pass had still to read,
\* when no newer entry touches its document, gives its event to every
\* unfiltered collection-wide entry.
C37_EmptyDocumentSkipped ==
  [][(SyncStep /\ readsEmpty(log, Len(log), lastId)) =>
       /\ cpc' \in {"select", "flush"}
       /\ tomb' = tomb
       /\ \A n \in 1..Len(log) :
            (/\ log[n] # EmptyDoc
             /\ log[n].id > lastId
             /\ \A m \in (n + 1)..Len(log) : log[m] = EmptyDoc) =>
               /\ lastId' = log[n].id
               /\ \A e \in Entries :
                    (e.key = <<"c1", Nil>> /\ e.info.filter = Nil) =>
                       \E i \in 1..Len(NewEvents) :
                          /\ NewEvents[i].reg = e.info.reg
                          /\ NewEvents[i].src.e = log[n].id]_vars

\* the list of request r holds a nil id
HasNilId(r) == r.type = "reqWatchMulti" /\ \E i \in 1..Len(r.ids) : r.ids[i] = Nil

\* C38: a WatchMulti whose list holds a nil id returns its error in the step
\* of the call, with the registry, the queues, the coordinator and the tomb
\* as they were; no such request is ever on its way to the coordinator, and
\* no collection-wide key ever gets the entry (revno -2) the request would
\* have made.
C38_NilIdRejected ==
  /\ [](/\ \A p \in Callers :
             callers[p].pc \in {"send", "wait"} => ~HasNilId(callers[p].req)
        /\ \A k \in WatchKeys : k[2] = Nil =>
             \A i \in 1..Len(watches[k]) : watches[k][i].revno = 0)
  /\ [][\A p \in Callers :
          (/\ callers[p].pc = "idle"
           /\ callers'[p].call = callers[p].call + 1
           /\ HasNilId(callers'[p].req)) =>
            /\ callers'[p].pc = "idle"
            /\ callers'[p].res = "errNilId"
            /\ UNCHANGED <<watches, nreg, syncEvents, requestEvents, needSync,
                           cpc, fl, sig, tomb, reason, lastId>>]_vars

\* on a running watcher a WatchMulti of b and nil has returned its error
\* after a Watch of a was registered: a has its entry, b has none, and the
\* coordinator is in its loop
C38_Witness ==
  /\ tomb = "alive"
  /\ cpc \in {"loop", "select", "flush"}
  /\ \E p \in Callers :
       /\ callers[p].pc = "idle"
       /\ callers[p].req = WatchMulti("c1", <<"b", Nil>>, "ch1")
       /\ callers[p].res = "errNilId"
  /\ Len(watches[<<"c1", "a">>]) = 1
  /\ watches[<<"c1", "b">>] = <<>>
  /\ watches[<<"c1", Nil>>] = <<>>

\* C39: when the entries a pass reads touch a document with a revno that is
\* not an int64 and an older entry among them touches it with an int64
\* revno, the pass reports the document: every unfiltered collection-wide
\* entry of its collection is queued an event for it.
C39_BadRevnoDropsOneRow ==
  [][SyncStep =>
       \A key \in Touched :
          (\E x, y \in TouchesOf(key) :
              ~RowRevno(x).ok /\ RowRevno(y).ok /\ y.e < x.e) =>
             \A e \in Entries :
                (e.key = <<key[1], Nil>> /\ e.info.filter = Nil) =>
                   EventsForKey(NewEvents, e.info.reg, key) # {}]_vars

====
